---- MODULE Spec2Model ----
(***************************************************************************)
(* A model of process_config.py, the generator of DotSlash manifest files  *)
(* for the assets of a GitHub release: _main's loop over the configured    *)
(* outputs, map_platforms, generate_manifest_file, compute_hash (with its  *)
(* functools.cache) and guess_artifact_format_from_asset_name.             *)
(*                                                                         *)
(* Python values are modelled as follows.  A str is a TLA+ string, None is *)
(* the string None below, a dict is a record (a key that is absent is a    *)
(* field that is absent), and a dict whose keys are the platform or output *)
(* names is a sequence in the dict's insertion order, the position in the  *)
(* sequence standing for the (unique) key.                                 *)
(***************************************************************************)
EXTENDS Integers, Sequences, FiniteSets, TLC

VARIABLES
    outputs,                          \* config["outputs"], in config order
    name_to_asset,                    \* get_release_assets(): the catalog, in dict order
    exclude_http_provider,            \* config["exclude-http-provider"]
    exclude_github_release_provider,  \* config["exclude-github-release-provider"]
    upload,                           \* args.upload
    pc,                               \* where _main is
    out,                              \* position of the output the loop is at
    platform_entries,                 \* what map_platforms returned for that output
    temp_dir,                         \* generate_manifest_file's TemporaryDirectory
    plat,                             \* position of the entry generate_manifest_file is at
    asset_format,                     \* that entry's resolved format
    hash_hex,                         \* that entry's digest
    platforms,                        \* generate_manifest_file's platforms dict so far
    manifest_file_contents,           \* what generate_manifest_file returned
    files,                            \* the output folder, one file per output
    uploaded,                         \* outputs whose file gh release upload has uploaded
    cache,                            \* the memo table of @cache on compute_hash
    exc,                              \* the exception that ended the run, if any
    log,                              \* the steps taken so far, in order
    requests                          \* the calls of compute_hash so far, in order

vars == <<outputs, name_to_asset, exclude_http_provider,
          exclude_github_release_provider, upload, pc, out, platform_entries,
          temp_dir, plat, asset_format, hash_hex, platforms,
          manifest_file_contents, files, uploaded, cache, exc, log, requests>>

inputs == <<outputs, name_to_asset, exclude_http_provider,
            exclude_github_release_provider, upload>>

(***************************************************************************)
(* Bounds of the model.                                                    *)
(***************************************************************************)
MaxOutputs == 2      \* outputs in a configuration
MaxPlatforms == 3    \* platform entries in a whole configuration
MaxSelectors == 2    \* platforms of the output map_platforms is checked on
MaxExts == 2         \* suffix pieces appended to an asset name

(***************************************************************************)
(* Python helpers.                                                         *)
(***************************************************************************)
None == "None"

\* bool(x) of a str or None.
Truthy(x) == x # None /\ x # ""

\* d.get(k)
Get(d, k) == IF k \in DOMAIN d THEN d[k] ELSE None

\* s.endswith(suffix)
endswith(s, suffix) ==
    /\ Len(s) >= Len(suffix)
    /\ SubSeq(s, Len(s) - Len(suffix) + 1, Len(s)) = suffix

(***************************************************************************)
(* guess_artifact_format_from_asset_name.                                  *)
(***************************************************************************)
\* A variant that tries the short suffixes before the compound ones.
guess_short_suffix_first(asset_name) ==
    IF endswith(asset_name, ".gz") THEN "gz"
    ELSE IF endswith(asset_name, ".zst") THEN "zst"
    ELSE IF endswith(asset_name, ".xz") THEN "xz"
    ELSE IF endswith(asset_name, ".tar.gz") \/ endswith(asset_name, ".tgz") THEN "tar.gz"
    ELSE IF endswith(asset_name, ".tar.zst") \/ endswith(asset_name, ".tzst") THEN "tar.zst"
    ELSE IF endswith(asset_name, ".tar.xz") THEN "tar.xz"
    ELSE IF endswith(asset_name, ".tar") THEN "tar"
    ELSE IF endswith(asset_name, ".zip") THEN "zip"
    ELSE None

guess_artifact_format_from_asset_name(asset_name) ==
    IF endswith(asset_name, ".tar.gz") \/ endswith(asset_name, ".tgz") THEN "tar.gz"
    ELSE IF endswith(asset_name, ".tar.zst") \/ endswith(asset_name, ".tzst") THEN "tar.zst"
    ELSE IF endswith(asset_name, ".tar.xz") THEN "tar.xz"
    ELSE IF endswith(asset_name, ".tar") THEN "tar"
    ELSE IF endswith(asset_name, ".gz") THEN "gz"
    ELSE IF endswith(asset_name, ".zst") THEN "zst"
    ELSE IF endswith(asset_name, ".xz") THEN "xz"
    ELSE IF endswith(asset_name, ".zip") THEN "zip"
    ELSE None

(***************************************************************************)
(* re.compile and Pattern.match, for the patterns of the model: literal    *)
(* characters, "." (any character), "^" as the first character, "$" as the *)
(* last one, and "(" (an unbalanced parenthesis, which re.compile          *)
(* rejects).                                                               *)
(***************************************************************************)
RECURSIVE HasChar(_, _)
HasChar(s, c) ==
    IF Len(s) = 0 THEN FALSE
    ELSE Head(s) = c \/ HasChar(Tail(s), c)

\* re.compile(pattern) returns (it raises re.error otherwise).
re_compiles(pattern) == ~HasChar(pattern, "(")

\* The pattern p matches s from s's first character on.
RECURSIVE MatchHere(_, _)
MatchHere(p, s) ==
    IF Len(p) = 0 THEN TRUE
    ELSE IF p = "$" THEN Len(s) = 0
    ELSE /\ Len(s) > 0
         /\ Head(p) = "." \/ Head(p) = Head(s)
         /\ MatchHere(Tail(p), Tail(s))

\* A variant that is regex.search: the match is tried at every place of s.
RECURSIVE re_search(_, _)
re_search(pattern, s) ==
    IF Len(pattern) > 0 /\ Head(pattern) = "^" THEN MatchHere(Tail(pattern), s)
    ELSE \/ MatchHere(pattern, s)
         \/ Len(s) > 0 /\ re_search(pattern, Tail(s))

\* regex.match(s) is not None: the match is tried at the start of s only.
re_match(pattern, s) ==
    IF Len(pattern) > 0 /\ Head(pattern) = "^"
    THEN MatchHere(Tail(pattern), s)
    ELSE MatchHere(pattern, s)

(***************************************************************************)
(* map_platforms.  Its result is                                           *)
(*   [tag |-> "dict", value |-> the entries], one <<asset, platform        *)
(*       config>> per platform, in the order of the platforms;             *)
(*   [tag |-> "error", value |-> the error name it returns];               *)
(*   [tag |-> "raise", value |-> the exception that leaves it].            *)
(***************************************************************************)
\* A variant that tests `name and not name_regex`.
both_given_negated(name, name_regex) == Truthy(name) /\ ~Truthy(name_regex)

\* `name and name_regex`
both_given(name, name_regex) == Truthy(name) /\ Truthy(name_regex)

\* `not name and not name_regex`
none_given(name, name_regex) == ~Truthy(name) /\ ~Truthy(name_regex)

\* for asset_name, asset in name_to_asset.items(): if asset_name == name: ... break
\* The position of the asset taken, 0 when the loop ends without one.
RECURSIVE first_named(_, _, _)
first_named(assets, name, k) ==
    IF k > Len(assets) THEN 0
    ELSE IF assets[k].name = name THEN k
    ELSE first_named(assets, name, k + 1)

\* for asset_name, asset in name_to_asset.items(): if regex.match(asset_name): ... break
RECURSIVE first_matching(_, _, _)
first_matching(assets, name_regex, k) ==
    IF k > Len(assets) THEN 0
    ELSE IF re_match(name_regex, assets[k].name) THEN k
    ELSE first_matching(assets, name_regex, k + 1)

PlatformEntry(platform, asset, platform_config) ==
    [platform |-> platform, asset |-> asset, platform_config |-> platform_config]

\* The loop over platforms.items(), at the platform in position k, with the
\* entries found so far.
RECURSIVE map_platforms_from(_, _, _, _)
map_platforms_from(platform_configs, assets, k, entries) ==
    IF k > Len(platform_configs) THEN [tag |-> "dict", value |-> entries]
    ELSE
        LET platform_config == platform_configs[k]
            name == Get(platform_config, "name")
            name_regex == Get(platform_config, "regex")
        IN  IF both_given(name, name_regex)
                THEN [tag |-> "error", value |-> "BothNameAndRegex"]
            ELSE IF none_given(name, name_regex)
                THEN [tag |-> "error", value |-> "NeitherNameNorRegex"]
            ELSE IF Truthy(name) THEN
                LET m == first_named(assets, name, 1)
                IN  IF m = 0
                        THEN [tag |-> "error", value |-> "NoMatchForAsset"]
                    ELSE map_platforms_from(platform_configs, assets, k + 1,
                            Append(entries, PlatformEntry(k, assets[m], platform_config)))
            ELSE IF ~re_compiles(name_regex)
                THEN [tag |-> "raise", value |-> "re.error"]
            ELSE
                LET m == first_matching(assets, name_regex, 1)
                IN  IF m = 0
                        THEN [tag |-> "error", value |-> "NoMatchForAsset"]
                    ELSE map_platforms_from(platform_configs, assets, k + 1,
                            Append(entries, PlatformEntry(k, assets[m], platform_config)))

map_platforms(config, assets) ==
    IF "platforms" \notin DOMAIN config
        THEN [tag |-> "error", value |-> "ParseError"]
    ELSE map_platforms_from(config.platforms, assets, 1, <<>>)

(***************************************************************************)
(* generate_manifest_file, one platform entry at a time.                   *)
(***************************************************************************)
GhRepoArg == "https://github.com/org/repo"
Tag == "v1"

\* platform_config.get("hash", "blake3")
hash_algo_of(platform_config) ==
    IF "hash" \in DOMAIN platform_config THEN platform_config.hash ELSE "blake3"

\* A variant that goes on when no format is inferred.
resolve_format_unchecked(asset, platform_config) ==
    IF "size" \notin DOMAIN asset THEN [error |-> "size", asset_format |-> None]
    ELSE IF "name" \notin DOMAIN asset THEN [error |-> "name", asset_format |-> None]
    ELSE IF ~Truthy(Get(platform_config, "path")) THEN [error |-> "path", asset_format |-> None]
    ELSE IF "format" \in DOMAIN platform_config
        THEN [error |-> "", asset_format |-> platform_config.format]
    ELSE [error |-> "",
          asset_format |-> guess_artifact_format_from_asset_name(asset.name)]

\* The checks of an entry and the choice of its format: the name of the field
\* whose check fails ("" when none does), and the format.
resolve_format(asset, platform_config) ==
    IF "size" \notin DOMAIN asset THEN [error |-> "size", asset_format |-> None]
    ELSE IF "name" \notin DOMAIN asset THEN [error |-> "name", asset_format |-> None]
    ELSE IF ~Truthy(Get(platform_config, "path")) THEN [error |-> "path", asset_format |-> None]
    ELSE IF "format" \in DOMAIN platform_config
        THEN [error |-> "", asset_format |-> platform_config.format]
    ELSE
        LET guessed == guess_artifact_format_from_asset_name(asset.name)
        IN  IF ~Truthy(guessed) THEN [error |-> "format", asset_format |-> None]
            ELSE [error |-> "", asset_format |-> guessed]

\* A variant without the negation.
include_http_provider_flipped == exclude_http_provider

include_http_provider == ~exclude_http_provider

include_github_release_provider == ~exclude_github_release_provider

providers_of(asset) ==
    (IF include_http_provider THEN <<[url |-> asset.url]>> ELSE <<>>)
    \o (IF include_github_release_provider
        THEN <<[type |-> "github-release", repo |-> GhRepoArg, tag |-> Tag,
                name |-> asset.name]>>
        ELSE <<>>)

\* A variant that never deletes the format.
drops_format_never(format) == FALSE

\* `if not asset_format: del artifact_entry["format"]`
drops_format(format) == ~Truthy(format)

artifact_entry_of(asset, platform_config, format, digest) ==
    LET entry == [size |-> asset.size,
                  hash |-> hash_algo_of(platform_config),
                  digest |-> digest,
                  format |-> format,
                  path |-> platform_config.path,
                  providers |-> providers_of(asset)]
    IN  IF drops_format(format)
            THEN [k \in DOMAIN entry \ {"format"} |-> entry[k]]
        ELSE entry

\* What generate_manifest_file returns: the file's text (given by the manifest
\* that json.dumps prints in it), or the int 1 of its `return 1`.
ManifestText(name, entries) ==
    [type |-> "str", manifest |-> [name |-> name, platforms |-> entries]]

ReturnOne == [type |-> "int", manifest |-> [name |-> 0, platforms |-> <<>>]]

(***************************************************************************)
(* compute_hash.                                                           *)
(***************************************************************************)
\* What `gh release download` may leave in the temporary directory: the size
\* and the bytes of the file, or nothing when gh fails.
Downloads ==
    { [ok |-> FALSE, st_size |-> 0, bytes |-> ""],
      [ok |-> TRUE, st_size |-> 1, bytes |-> "x"],
      [ok |-> TRUE, st_size |-> 1, bytes |-> "y"],
      [ok |-> TRUE, st_size |-> 2, bytes |-> "z"] }

\* hasher.hexdigest(): a function of the algorithm and of the bytes.
hexdigest(hash_algo, bytes) == hash_algo \o ":" \o bytes

\* The arguments of the call, which are the key of @cache.
cache_key(dir, asset, platform_config) ==
    <<GhRepoArg, dir, Tag, asset.name, hash_algo_of(platform_config), asset.size>>

\* A variant without @cache.
cached_never(memo, key) == FALSE

\* @cache holds a result for these arguments.
cached(memo, key) == key \in DOMAIN memo

\* A variant without the check of the size.
size_differs_never(st_size, size) == FALSE

\* `if stats.st_size != size: raise Exception(...)`
size_differs(st_size, size) == st_size # size

\* What tempfile.TemporaryDirectory() may name its directory.
TempDirs == {"/tmp/tmp1", "/tmp/tmp2"}

(***************************************************************************)
(* The output folder.                                                      *)
(***************************************************************************)
NoManifest == [name |-> 0, platforms |-> <<>>]
NoFile == [exists |-> FALSE, text |-> "", manifest |-> NoManifest]
OldFile == [exists |-> TRUE, text |-> "old", manifest |-> NoManifest]
EmptyFile == [exists |-> TRUE, text |-> "", manifest |-> NoManifest]
ManifestFile(contents) == [exists |-> TRUE, text |-> "manifest", manifest |-> contents.manifest]

\* A variant without check=True.
upload_never_raises(returncode) == FALSE

\* subprocess.run(["gh", "release", "upload", ...], check=True) raises.
upload_raises(returncode) == returncode # 0

Step(op, o, p, ok) == [op |-> op, out |-> o, plat |-> p, ok |-> ok]

(***************************************************************************)
(* _main, from its loop over outputs.items() on.  pc is                    *)
(*   "map"     about to call map_platforms for the output at `out`;        *)
(*   "format"  in generate_manifest_file, about to check the entry at      *)
(*             `plat` and to choose its format;                            *)
(*   "hash"    about to call compute_hash for that entry;                  *)
(*   "build"   about to build that entry's artifact_entry;                 *)
(*   "write"   generate_manifest_file has returned, about to open and      *)
(*             write the output file;                                      *)
(*   "upload"  about to run gh release upload;                             *)
(*   "exit0", "exit1"  _main has returned 0, 1;                            *)
(*   "raised"  an exception has left _main.                                *)
(***************************************************************************)
Unset == [type |-> "unset", manifest |-> NoManifest]

NotMapped == [tag |-> "unset", value |-> <<>>]

\* The state as the loop over the outputs starts.
AtLoopStart ==
    /\ pc = "map"
    /\ out = 1
    /\ platform_entries = NotMapped
    /\ temp_dir = ""
    /\ plat = 0
    /\ asset_format = None
    /\ hash_hex = None
    /\ platforms = <<>>
    /\ manifest_file_contents = Unset
    /\ \E f \in {NoFile, OldFile} : files = [i \in 1..Len(outputs) |-> f]
    /\ uploaded = {}
    /\ cache = <<>>
    /\ exc = ""
    /\ log = <<>>
    /\ requests = <<>>

\* The next iteration of `for output_filename, output_config in outputs.items()`,
\* or `return 0` after the last one.
NextOutput ==
    IF out < Len(outputs)
        THEN /\ out' = out + 1
             /\ pc' = "map"
    ELSE /\ out' = out
         /\ pc' = "exit0"

\* platform_entries = map_platforms(output_config, name_to_asset), the test of
\* its result, and generate_manifest_file up to its loop over the entries.
MapPlatforms ==
    /\ pc = "map"
    /\ LET r == map_platforms(outputs[out], name_to_asset)
       IN  /\ platform_entries' = r
           /\ log' = Append(log, Step("resolve", out, 0, r.tag = "dict"))
           /\ IF r.tag = "raise"
                THEN /\ pc' = "raised"
                     /\ exc' = r.value
                     /\ UNCHANGED <<temp_dir, plat, platforms, manifest_file_contents>>
              ELSE IF r.tag # "dict"
                THEN /\ pc' = "exit1"
                     /\ UNCHANGED <<exc, temp_dir, plat, platforms, manifest_file_contents>>
              ELSE /\ \E d \in TempDirs : temp_dir' = d
                   /\ platforms' = <<>>
                   /\ plat' = 1
                   /\ exc' = exc
                   /\ IF Len(r.value) = 0
                        THEN /\ manifest_file_contents' = ManifestText(out, <<>>)
                             /\ pc' = "write"
                      ELSE /\ manifest_file_contents' = Unset
                           /\ pc' = "format"
    /\ UNCHANGED <<inputs, out, asset_format, hash_hex, files, uploaded, cache, requests>>

\* The checks of size, name and path, and the choice of the format.
ResolveFormat ==
    /\ pc = "format"
    /\ LET entry == platform_entries.value[plat]
           r == resolve_format(entry.asset, entry.platform_config)
       IN  /\ log' = Append(log, Step("format", out, plat, r.error = ""))
           /\ IF r.error # ""
                THEN /\ manifest_file_contents' = ReturnOne
                     /\ pc' = "write"
                     /\ UNCHANGED asset_format
              ELSE /\ asset_format' = r.asset_format
                   /\ pc' = "hash"
                   /\ UNCHANGED manifest_file_contents
    /\ UNCHANGED <<inputs, out, platform_entries, temp_dir, plat, hash_hex, platforms,
                   files, uploaded, cache, exc, requests>>

Request(key, fetched, download, result) ==
    [out |-> out, plat |-> plat, key |-> key, fetched |-> fetched,
     download |-> download, result |-> result]

NoDownload == [ok |-> FALSE, st_size |-> 0, bytes |-> ""]

\* hash_hex = compute_hash(gh_repo_arg, temp_dir, tag, asset_name, hash_algo, size)
ComputeHash ==
    /\ pc = "hash"
    /\ LET entry == platform_entries.value[plat]
           key == cache_key(temp_dir, entry.asset, entry.platform_config)
       IN  IF cached(cache, key)
             THEN /\ hash_hex' = cache[key]
                  /\ requests' = Append(requests, Request(key, FALSE, NoDownload, cache[key]))
                  /\ log' = Append(log, Step("hash", out, plat, TRUE))
                  /\ pc' = "build"
                  /\ UNCHANGED <<cache, exc>>
           ELSE \E download \in Downloads :
                IF ~download.ok
                  THEN /\ exc' = "CalledProcessError"
                       /\ pc' = "raised"
                       /\ requests' = Append(requests, Request(key, TRUE, download, "raised"))
                       /\ log' = Append(log, Step("hash", out, plat, FALSE))
                       /\ UNCHANGED <<cache, hash_hex>>
                ELSE IF size_differs(download.st_size, entry.asset.size)
                  THEN /\ exc' = "Exception: expected size"
                       /\ pc' = "raised"
                       /\ requests' = Append(requests, Request(key, TRUE, download, "raised"))
                       /\ log' = Append(log, Step("hash", out, plat, FALSE))
                       /\ UNCHANGED <<cache, hash_hex>>
                ELSE LET digest == hexdigest(key[5], download.bytes)
                     IN  /\ hash_hex' = digest
                         /\ cache' = (key :> digest) @@ cache
                         /\ requests' = Append(requests, Request(key, TRUE, download, digest))
                         /\ log' = Append(log, Step("hash", out, plat, TRUE))
                         /\ pc' = "build"
                         /\ exc' = exc
    /\ UNCHANGED <<inputs, out, platform_entries, temp_dir, plat, asset_format, platforms,
                   manifest_file_contents, files, uploaded>>

\* providers, artifact_entry and platforms[platform_name] = artifact_entry; after
\* the last entry, the manifest and the text returned.
BuildEntry ==
    /\ pc = "build"
    /\ LET entry == platform_entries.value[plat]
           artifact_entry == artifact_entry_of(entry.asset, entry.platform_config,
                                               asset_format, hash_hex)
           built == Append(platforms, [platform |-> entry.platform, entry |-> artifact_entry])
       IN  /\ platforms' = built
           /\ log' = Append(log, Step("build", out, plat, TRUE))
           /\ IF plat < Len(platform_entries.value)
                THEN /\ plat' = plat + 1
                     /\ pc' = "format"
                     /\ UNCHANGED manifest_file_contents
              ELSE /\ plat' = plat
                   /\ manifest_file_contents' = ManifestText(out, built)
                   /\ pc' = "write"
    /\ UNCHANGED <<inputs, out, platform_entries, temp_dir, asset_format, hash_hex,
                   files, uploaded, cache, exc, requests>>

\* with open(output_file, "w") as f: f.write(manifest_file_contents)
\* open() creates the file or truncates it; write() raises TypeError when it is
\* not given a str.
WriteFile ==
    /\ pc = "write"
    /\ IF manifest_file_contents.type # "str"
         THEN /\ files' = [files EXCEPT ![out] = EmptyFile]
              /\ exc' = "TypeError"
              /\ pc' = "raised"
              /\ out' = out
              /\ log' = Append(log, Step("write", out, 0, FALSE))
       ELSE /\ files' = [files EXCEPT ![out] = ManifestFile(manifest_file_contents)]
            /\ exc' = exc
            /\ log' = Append(log, Step("write", out, 0, TRUE))
            /\ IF upload
                 THEN /\ pc' = "upload"
                      /\ out' = out
               ELSE NextOutput
    /\ UNCHANGED <<inputs, platform_entries, temp_dir, plat, asset_format, hash_hex,
                   platforms, manifest_file_contents, uploaded, cache, requests>>

\* subprocess.run(["gh", "release", "upload", tag, output_file, ...], check=True)
Upload ==
    /\ pc = "upload"
    /\ \E returncode \in {0, 1} :
        IF upload_raises(returncode)
          THEN /\ exc' = "CalledProcessError"
               /\ pc' = "raised"
               /\ out' = out
               /\ uploaded' = uploaded
               /\ log' = Append(log, Step("upload", out, 0, FALSE))
        ELSE /\ uploaded' = IF returncode = 0 THEN uploaded \cup {out} ELSE uploaded
             /\ exc' = exc
             /\ log' = Append(log, Step("upload", out, 0, returncode = 0))
             /\ NextOutput
    /\ UNCHANGED <<inputs, platform_entries, temp_dir, plat, asset_format, hash_hex,
                   platforms, manifest_file_contents, files, cache, requests>>

Next ==
    \/ MapPlatforms
    \/ ResolveFormat
    \/ ComputeHash
    \/ BuildEntry
    \/ WriteFile
    \/ Upload

(***************************************************************************)
(* The runs checked: whole configurations.                                 *)
(***************************************************************************)
AssetA == [name |-> "a.tgz", url |-> "https://x/a.tgz", size |-> 1]
AssetB == [name |-> "b", url |-> "https://x/b", size |-> 2]
AssetC == [name |-> "c.zip", url |-> "https://x/c.zip"]

\* The platform configs of these runs: an exact name with the format inferred
\* and the default hash; a pattern with "format": null and sha256; a pattern
\* whose asset has a name no format is inferred from; a selector with both
\* name and regex; a name no asset has.
PlatformConfigs ==
    { [name |-> "a.tgz", path |-> "bin"],
      [regex |-> "^b", hash |-> "sha256", path |-> "bin", format |-> None],
      [regex |-> "^b", path |-> "bin"],
      [name |-> "a.tgz", regex |-> "^b", path |-> "bin"],
      [name |-> "zzz", path |-> "bin"] }

\* The number of platforms of an output of shape n (-1: no "platforms" key).
Count(n) == IF n < 0 THEN 0 ELSE n

RECURSIVE Total(_, _)
Total(shape, m) == IF m = 0 THEN 0 ELSE Total(shape, m - 1) + Count(shape[m])

\* The outputs with shape[i] platforms each, their configs taken in order from ps.
OutputsOf(shape, ps) ==
    [i \in 1..Len(shape) |->
        IF shape[i] < 0 THEN [comment |-> "no platforms"]
        ELSE [platforms |-> [k \in 1..shape[i] |-> ps[Total(shape, i - 1) + k]]]]

Init ==
    /\ \E m \in 1..MaxOutputs :
       \E shape \in [1..m -> -1..MaxPlatforms] :
          /\ Total(shape, m) <= MaxPlatforms
          /\ \E ps \in [1..Total(shape, m) -> PlatformConfigs] :
                outputs = OutputsOf(shape, ps)
    /\ name_to_asset = <<AssetA, AssetB, AssetC>>
    /\ exclude_http_provider = FALSE
    /\ exclude_github_release_provider = FALSE
    /\ upload \in BOOLEAN
    /\ AtLoopStart

Spec == Init /\ [][Next]_vars

(***************************************************************************)
(* The runs checked: one output, with every selector of SelectorConfigs    *)
(* against every catalog of Catalogs.                                      *)
(***************************************************************************)
Absent == "<absent>"

\* The record r with the field k set to v, unless v is Absent.
With(r, k, v) == IF v = Absent THEN r ELSE (k :> v) @@ r

SelectorConfigs ==
    { With(With([path |-> "bin", format |-> None], "name", n), "regex", x) :
        n \in {Absent, "", "ab"},
        x \in {Absent, "", "a", "b", "^a.", "ab$", "("} }

ResolveAssets ==
    { [name |-> "ab", url |-> "https://x/ab", size |-> 1],
      [name |-> "abc", url |-> "https://x/abc", size |-> 1],
      [name |-> "AB", url |-> "https://x/AB", size |-> 1] }

\* The catalogs: a dict has each name once.
Catalogs ==
    { c \in UNION { [1..n -> ResolveAssets] : n \in 0..Cardinality(ResolveAssets) } :
        \A i, j \in DOMAIN c : i # j => c[i].name # c[j].name }

InitResolve ==
    /\ \/ outputs = << [comment |-> "no platforms"] >>
       \/ \E n \in 0..MaxSelectors :
          \E ps \in [1..n -> SelectorConfigs] :
             outputs = << [platforms |-> ps] >>
    /\ name_to_asset \in Catalogs
    /\ exclude_http_provider = FALSE
    /\ exclude_github_release_provider = FALSE
    /\ upload = TRUE
    /\ AtLoopStart

SpecResolve == InitResolve /\ [][Next]_vars

(***************************************************************************)
(* The runs checked: one output with one platform, selected by its exact   *)
(* name, for every asset name of AssetNames and every "format" of Formats. *)
(***************************************************************************)
Pieces == {".tar", ".gz", ".tgz", ".zst", ".tzst", ".xz", ".zip", ".bin", "gz"}

\* "a" followed by at most n pieces.
RECURSIVE NamesUpTo(_)
NamesUpTo(n) ==
    IF n = 0 THEN {"a"}
    ELSE LET shorter == NamesUpTo(n - 1)
         IN  shorter \cup { s \o piece : s \in shorter, piece \in Pieces }

AssetNames == NamesUpTo(MaxExts)

Formats == {Absent, None, "", "zip", "tar.gz"}

InitFormat ==
    /\ \E n \in AssetNames, f \in Formats, path \in {Absent, "bin"} :
          /\ outputs = << [platforms |->
                            << With(With([name |-> n], "format", f), "path", path) >>] >>
          /\ name_to_asset = << [name |-> n, url |-> "https://x/" \o n, size |-> 1] >>
    /\ exclude_http_provider \in BOOLEAN
    /\ exclude_github_release_provider \in BOOLEAN
    /\ upload = TRUE
    /\ AtLoopStart

SpecFormat == InitFormat /\ [][Next]_vars

(***************************************************************************)
(* What the claims speak of, read off the state.                           *)
(***************************************************************************)
Steps == {log[n] : n \in DOMAIN log}

\* The step op of the entry at p of the output at o has been taken / has failed.
Took(op, o, p) == \E n \in DOMAIN log : log[n].op = op /\ log[n].out = o /\ log[n].plat = p

Failed(op, o, p) ==
    \E n \in DOMAIN log : log[n].op = op /\ log[n].out = o /\ log[n].plat = p /\ ~log[n].ok

\* The output at o has a failed step.
OutputFailed(o) == \E n \in DOMAIN log : log[n].out = o /\ ~log[n].ok

\* The output file at o is as it was before the run.
Untouched(o) == files[o] \in {NoFile, OldFile}

\* The output file at o holds a manifest.
Written(o) == files[o].text = "manifest"

\* The run has ended in an error.
Aborted == pc \in {"exit1", "raised"}

(***************************************************************************)
(* C1.  For every output: when generate_manifest_file stops at a missing   *)
(* asset size, a missing asset name, a missing path or a format that       *)
(* cannot be inferred, no manifest file of that output is written: _main   *)
(* neither creates the output file, nor truncates it, nor writes to it.    *)
(***************************************************************************)
C1_NoFileAfterFailedEntry ==
    \A o \in DOMAIN files :
        (\E n \in DOMAIN log : log[n].op = "format" /\ log[n].out = o /\ ~log[n].ok)
            => Untouched(o)

(***************************************************************************)
(* C2.  A call of compute_hash has found the size of the file it fetched   *)
(* to differ from the declared size.                                       *)
(***************************************************************************)
Mismatch(r) == r.fetched /\ r.download.ok /\ r.download.st_size # r.key[6]

Mismatches == {n \in DOMAIN requests : Mismatch(requests[n])}

\* C2, as claimed: in every state in which compute_hash has met a fetched byte
\* count that differs from the declared size, no platform entry has been built
\* and the run has produced no manifest output.
C2_NothingBuiltOnMismatch ==
    Mismatches # {} =>
        /\ platforms = <<>>
        /\ \A n \in DOMAIN log : log[n].op # "build"
        /\ \A o \in DOMAIN files : ~Written(o) /\ o \notin uploaded

\* C2, as amended: in every state in which compute_hash has met a fetched byte
\* count that differs from the declared size, the run has ended with the
\* exception at that call, no entry has been built for that platform or a later
\* one, and the file of that output and of every later one is neither written
\* nor uploaded.
C2_RunEndsOnMismatch ==
    \A n \in Mismatches :
        LET r == requests[n]
        IN  /\ pc = "raised"
            /\ n = Len(requests)
            /\ out = r.out /\ plat = r.plat
            /\ \A m \in DOMAIN log :
                    log[m].op = "build" /\ log[m].out = r.out => log[m].plat < r.plat
            /\ \A m \in DOMAIN platforms : platforms[m].platform < r.plat
            /\ \A o \in DOMAIN files :
                    o >= r.out => Untouched(o) /\ o \notin uploaded /\ ~Took("resolve", o + 1, 0)

\* The case of C2: a size mismatch at the second platform of the second output.
C2_Witness ==
    \E n \in Mismatches : requests[n].out = 2 /\ requests[n].plat = 2

(***************************************************************************)
(* C3.  Two calls of compute_hash in one run.                              *)
(***************************************************************************)
\* The (repo, tag, artifact name, algorithm, declared size) of a call.
Asked(r) == <<r.key[1], r.key[3], r.key[4], r.key[5], r.key[6]>>

\* C3, as claimed: of any two calls with the same (repo, tag, artifact name,
\* algorithm, declared size), in the same output or in different ones, at most
\* one runs gh release download, and both return the same digest.
C3_OneFetchPerArtifact ==
    \A m, n \in DOMAIN requests :
        /\ m # n
        /\ Asked(requests[m]) = Asked(requests[n])
        /\ requests[m].result # "raised"
        /\ requests[n].result # "raised"
        => /\ ~(requests[m].fetched /\ requests[n].fetched)
           /\ requests[m].result = requests[n].result

\* C3, as amended: of any two calls with the same (repo, temporary directory,
\* tag, artifact name, algorithm, declared size), as two platforms of one output
\* make them, at most one runs gh release download, and both return the same
\* digest.
C3_OneFetchPerKey ==
    \A m, n \in DOMAIN requests :
        m # n /\ (requests[m].key = requests[n].key \/ requests[m].out = requests[n].out)
              /\ Asked(requests[m]) = Asked(requests[n]) =>
            /\ ~(requests[m].fetched /\ requests[n].fetched)
            /\ requests[m].result = requests[n].result
            /\ requests[m].result # "raised"

\* The case of C3: two platforms of one output ask for the same digest.
C3_Witness ==
    \E m, n \in DOMAIN requests :
        /\ m < n
        /\ requests[m].out = requests[n].out
        /\ requests[m].key = requests[n].key
        /\ pc = "build"

(***************************************************************************)
(* C4 and C5.  What the selectors of the output at `out` ask for, stated   *)
(* on the configuration and the catalog.                                   *)
(***************************************************************************)
\* The field k of the selector is set (to something other than null or "").
Given(cfg, k) == k \in DOMAIN cfg /\ cfg[k] # None /\ cfg[k] # ""

CharAt(s, i) == SubSeq(s, i, i)

\* The pattern without a leading "^".
Unanchored(p) == IF Len(p) > 0 /\ CharAt(p, 1) = "^" THEN SubSeq(p, 2, Len(p)) ELSE p

\* The characters of p, "." standing for any, are the first characters of s.
StartsWith(s, p) ==
    /\ Len(p) <= Len(s)
    /\ \A i \in 1..Len(p) : CharAt(p, i) = "." \/ CharAt(p, i) = CharAt(s, i)

\* The pattern matches a prefix of s: the whole of s when the pattern ends in "$".
MatchesPrefix(pattern, s) ==
    LET p == Unanchored(pattern)
    IN  IF Len(p) > 0 /\ CharAt(p, Len(p)) = "$"
            THEN Len(s) = Len(p) - 1 /\ StartsWith(s, SubSeq(p, 1, Len(p) - 1))
        ELSE StartsWith(s, p)

WellFormed(pattern) == \A i \in 1..Len(pattern) : CharAt(pattern, i) # "("

BothSet(cfg) == Given(cfg, "name") /\ Given(cfg, "regex")

NeitherSet(cfg) == ~Given(cfg, "name") /\ ~Given(cfg, "regex")

ValidSelector(cfg) ==
    /\ ~BothSet(cfg)
    /\ ~NeitherSet(cfg)
    /\ Given(cfg, "regex") => WellFormed(cfg.regex)

Qualifies(cfg, asset) ==
    IF Given(cfg, "name") THEN asset.name = cfg.name
    ELSE MatchesPrefix(cfg.regex, asset.name)

Qualifying(cfg) == {j \in DOMAIN name_to_asset : Qualifies(cfg, name_to_asset[j])}

Resolvable(cfg) == ValidSelector(cfg) /\ Qualifying(cfg) # {}

\* map_platforms gets as far as the platform at k.
Reached(cfgs, k) == \A j \in 1..(k - 1) : Resolvable(cfgs[j])

\* map_platforms has returned for the output at `out`, which has platforms.
Mapped == pc # "map" /\ "platforms" \in DOMAIN outputs[out]

\* map_platforms has returned the error e, and nothing else.
ReturnedError(e) ==
    /\ platform_entries.tag = "error"
    /\ platform_entries.value = e
    /\ pc = "exit1"
    /\ \A n \in DOMAIN log : log[n].out = out => log[n].op = "resolve"

\* C4: for every selector map_platforms gets to, when both name and regex are
\* set map_platforms returns BothNameAndRegex, and when neither is
\* NeitherNameNorRegex; it then returns that error value alone, with no mapping
\* of the other platforms.
C4_SelectorErrors ==
    Mapped =>
        \A k \in DOMAIN outputs[out].platforms :
            LET cfgs == outputs[out].platforms
            IN  Reached(cfgs, k) =>
                    /\ BothSet(cfgs[k]) => ReturnedError("BothNameAndRegex")
                    /\ NeitherSet(cfgs[k]) => ReturnedError("NeitherNameNorRegex")

\* The case of C4: the second selector has both, the first one resolves.
C4_Witness ==
    /\ Mapped
    /\ Len(outputs[out].platforms) = 2
    /\ Resolvable(outputs[out].platforms[1])
    /\ BothSet(outputs[out].platforms[2])
    /\ platform_entries.tag = "error"

\* C5: every platform with a valid selector is resolved to the first asset, in
\* the order of the catalog, whose name is the exact name or, for a pattern,
\* whose name the pattern matches from its start on (a prefix of the name, not
\* the whole name, not a part further in); when no asset of the catalog is
\* such, map_platforms returns NoMatchForAsset.
C5_FirstMatchWins ==
    Mapped =>
        LET cfgs == outputs[out].platforms
        IN  /\ (\A k \in DOMAIN cfgs : Resolvable(cfgs[k])) =>
                    /\ platform_entries.tag = "dict"
                    /\ Len(platform_entries.value) = Len(cfgs)
                    /\ \A k \in DOMAIN cfgs :
                        LET entry == platform_entries.value[k]
                            first == CHOOSE j \in Qualifying(cfgs[k]) :
                                        \A i \in Qualifying(cfgs[k]) : j <= i
                        IN  /\ entry.platform = k
                            /\ entry.asset = name_to_asset[first]
                            /\ entry.platform_config = cfgs[k]
            /\ \A k \in DOMAIN cfgs :
                    Reached(cfgs, k) /\ ValidSelector(cfgs[k]) /\ Qualifying(cfgs[k]) = {}
                        => ReturnedError("NoMatchForAsset")

\* The case of C5: a pattern that is a proper prefix of two names of the
\* catalog has been resolved to the one that comes first, which is not the
\* first asset of the catalog.
C5_Witness ==
    /\ Mapped
    /\ platform_entries.tag = "dict"
    /\ \E k \in DOMAIN platform_entries.value :
        LET cfg == platform_entries.value[k].platform_config
        IN  /\ Given(cfg, "regex")
            /\ Cardinality(Qualifying(cfg)) = 2
            /\ 1 \notin Qualifying(cfg)
            /\ Len(cfg.regex) < Len(platform_entries.value[k].asset.name)

(***************************************************************************)
(* The manifest entries built so far, and where each comes from.           *)
(***************************************************************************)
\* The entries built for the output at o: those of its file once it is written,
\* and before that those generate_manifest_file holds.
EntriesOf(o) ==
    IF Written(o) THEN files[o].manifest.platforms
    ELSE IF o = out /\ Took("format", o, 1) THEN platforms
    ELSE <<>>

\* The asset the selector is resolved to.
ResolvedAsset(cfg) ==
    name_to_asset[CHOOSE j \in Qualifying(cfg) : \A i \in Qualifying(cfg) : j <= i]

\* The platforms of the output at o that generate_manifest_file has got to.
Visited(o) ==
    IF "platforms" \in DOMAIN outputs[o]
        THEN {k \in DOMAIN outputs[o].platforms : Took("format", o, k)}
    ELSE {}

(***************************************************************************)
(* C7.  The chain of suffixes, in its order.                               *)
(***************************************************************************)
SuffixChain ==
    << <<".tar.gz", "tar.gz">>, <<".tgz", "tar.gz">>,
       <<".tar.zst", "tar.zst">>, <<".tzst", "tar.zst">>,
       <<".tar.xz", "tar.xz">>,
       <<".tar", "tar">>,
       <<".gz", "gz">>,
       <<".zst", "zst">>,
       <<".xz", "xz">>,
       <<".zip", "zip">> >>

HasSuffix(name, suffix) ==
    \E n \in 0..Len(name) : SubSeq(name, n + 1, Len(name)) = suffix

\* The format of the first suffix of the chain the name ends in, None without one.
FormatBySuffix(name) ==
    LET hits == {i \in DOMAIN SuffixChain : HasSuffix(name, SuffixChain[i][1])}
    IN  IF hits = {} THEN None
        ELSE SuffixChain[CHOOSE i \in hits : \A j \in hits : i <= j][2]

\* The entry generate_manifest_file is at leaves the format to be inferred, and
\* passes the checks that come before the inference.
Inferring ==
    /\ platform_entries.tag = "dict"
    /\ plat \in DOMAIN platform_entries.value
    /\ "format" \notin DOMAIN platform_entries.value[plat].platform_config
    /\ "size" \in DOMAIN platform_entries.value[plat].asset
    /\ Given(platform_entries.value[plat].platform_config, "path")

\* C7: guess_artifact_format_from_asset_name gives every name the format of the
\* first suffix of the chain it ends in, and None when it ends in none; a name in
\* .tar.gz is never gz, one in .tar.zst never zst, one in .tar.xz never xz.
C7_SuffixChain ==
    Inferring =>
        LET name == platform_entries.value[plat].asset.name
        IN  /\ pc \in {"hash", "build"} =>
                /\ asset_format = FormatBySuffix(name)
                /\ HasSuffix(name, ".tar.gz") => asset_format # "gz"
                /\ HasSuffix(name, ".tar.zst") => asset_format # "zst"
                /\ HasSuffix(name, ".tar.xz") => asset_format # "xz"
            /\ pc = "write" /\ manifest_file_contents.type = "int" =>
                FormatBySuffix(name) = None
            /\ FormatBySuffix(name) = None => pc \notin {"hash", "build"}

\* The case of C7: the format of a name in .tar.gz has been inferred.
C7_Witness ==
    /\ Inferring
    /\ pc = "hash"
    /\ HasSuffix(platform_entries.value[plat].asset.name, ".tar.gz")
    /\ asset_format = "tar.gz"

(***************************************************************************)
(* C6.  The format of an entry.                                            *)
(***************************************************************************)
\* The platform at k of the output at o has an entry.
HasEntry(o, k) == \E n \in DOMAIN EntriesOf(o) : EntriesOf(o)[n].platform = k

\* The rule, the explicit values of no_packaging being those that leave the
\* entry without a format.
FormatRule(no_packaging) ==
    \A o \in DOMAIN outputs : \A k \in Visited(o) :
        LET cfg == outputs[o].platforms[k]
            asset == ResolvedAsset(cfg)
        IN  /\ \A n \in DOMAIN EntriesOf(o) :
                EntriesOf(o)[n].platform = k =>
                    LET e == EntriesOf(o)[n].entry
                    IN  IF "format" \in DOMAIN cfg
                            THEN /\ "format" \notin DOMAIN e <=> cfg.format \in no_packaging
                                 /\ "format" \in DOMAIN e => e.format = cfg.format
                        ELSE /\ "format" \in DOMAIN e
                             /\ e.format = FormatBySuffix(asset.name)
                             /\ e.format # None
            /\ "format" \notin DOMAIN cfg /\ FormatBySuffix(asset.name) = None =>
                    ~HasEntry(o, k) /\ ~Took("hash", o, k)
            /\ /\ "format" \in DOMAIN cfg
               /\ "size" \in DOMAIN asset
               /\ Given(cfg, "path")
               => ~Failed("format", o, k)

\* C6, as claimed: with a "format" field the entry takes the explicit value and
\* nothing is inferred, and the entry has no format attribute exactly when the
\* explicit value is null; without the field the format is the one inferred
\* from the asset name, and when none is inferred generation fails and builds
\* no entry.
C6_NoFormatIffNull == FormatRule({None})

\* C6, as amended: ... and the entry has no format attribute exactly when the
\* explicit value is null or empty (any value Python takes for false) ...
C6_NoFormatIffFalsy == FormatRule({None, ""})

\* The case of C6: an entry built with "format": null, the asset's name being
\* one a format would be inferred from.
C6_Witness ==
    \E o \in DOMAIN outputs : \E k \in Visited(o) :
        /\ HasEntry(o, k)
        /\ "format" \in DOMAIN outputs[o].platforms[k]
        /\ outputs[o].platforms[k].format = None
        /\ FormatBySuffix(ResolvedAsset(outputs[o].platforms[k]).name) # None

(***************************************************************************)
(* C8.  The providers of an entry.                                         *)
(***************************************************************************)
IsHttp(provider, asset) == provider = [url |-> asset.url]

IsRelease(provider, asset) ==
    provider = [type |-> "github-release", repo |-> GhRepoArg, tag |-> Tag,
                name |-> asset.name]

\* C8: the providers of every entry are given by the two flags alone: the HTTP
\* provider {url} is there iff it is not excluded, the release provider {type,
\* repo, tag, name} iff it is not excluded, the HTTP provider first when both
\* are there, and no provider when neither is; with HTTP alone the list is one
\* element whose only key is url.
C8_Providers ==
    \A o \in DOMAIN outputs : \A k \in Visited(o) :
        \A n \in DOMAIN EntriesOf(o) :
            EntriesOf(o)[n].platform = k =>
                LET ps == EntriesOf(o)[n].entry.providers
                    asset == ResolvedAsset(outputs[o].platforms[k])
                    http == ~exclude_http_provider
                    release == ~exclude_github_release_provider
                IN  /\ (\E i \in DOMAIN ps : IsHttp(ps[i], asset)) <=> http
                    /\ (\E i \in DOMAIN ps : IsRelease(ps[i], asset)) <=> release
                    /\ Len(ps) = (IF http THEN 1 ELSE 0) + (IF release THEN 1 ELSE 0)
                    /\ http /\ release => IsHttp(ps[1], asset) /\ IsRelease(ps[2], asset)
                    /\ http /\ ~release => Len(ps) = 1 /\ DOMAIN ps[1] = {"url"}

\* The case of C8: an entry built with the HTTP provider alone.
C8_Witness ==
    /\ ~exclude_http_provider
    /\ exclude_github_release_provider
    /\ \E o \in DOMAIN outputs : Written(o) /\ Len(EntriesOf(o)) > 0

(***************************************************************************)
(* C9.  The order of the steps of an output.                               *)
(***************************************************************************)
ChainOps == {"resolve", "format", "hash", "build"}

\* The entry at k of the output at o does not pass generate_manifest_file's
\* checks, by the configuration and the catalog.
Invalid(o, k) ==
    LET cfg == outputs[o].platforms[k]
        asset == ResolvedAsset(cfg)
    IN  \/ "size" \notin DOMAIN asset
        \/ ~Given(cfg, "path")
        \/ "format" \notin DOMAIN cfg /\ FormatBySuffix(asset.name) = None

\* Each output goes Resolve, then per entry `first`, `second` and the building
\* of the entry, with no step taken twice and none after a failed one.
LinearChain(first, second) ==
    /\ \A n \in DOMAIN log :
        /\ log[n].op \in {"format", "hash", "build"} =>
                \E m \in 1..(n - 1) : log[m] = Step("resolve", log[n].out, 0, TRUE)
        /\ log[n].op = second =>
                \E m \in 1..(n - 1) : log[m] = Step(first, log[n].out, log[n].plat, TRUE)
        /\ log[n].op = "build" =>
                \E m \in 1..(n - 1) : log[m] = Step(second, log[n].out, log[n].plat, TRUE)
        /\ log[n].op \in ChainOps /\ ~log[n].ok =>
                \A m \in DOMAIN log : m > n => log[m].op \notin ChainOps
        /\ \A m \in DOMAIN log :
                m # n => ~(/\ log[m].op = log[n].op
                           /\ log[m].out = log[n].out
                           /\ log[m].plat = log[n].plat)
    /\ \A o \in DOMAIN outputs : \A k \in Visited(o) :
        Invalid(o, k) =>
            /\ Failed("format", o, k)
            /\ \A n \in DOMAIN log :
                log[n].out = o /\ log[n].op \in {"hash", "build"} => log[n].plat < k

\* C9, as claimed: per output the steps are Resolve, then per entry Hash and
\* then Format, then Build: the platforms are all resolved before an asset is
\* fetched, the digest of an entry is computed before its format is resolved,
\* an error ends the output's steps, and no step is taken again.
C9_HashThenFormat == LinearChain("hash", "format")

\* C9, as amended: ... the format of an entry is resolved before its digest is
\* computed (Resolve, then per entry Format, Hash and the building of the
\* entry) ...
C9_FormatThenHash == LinearChain("format", "hash")

\* The case of C9: an output whose second entry has been built, after an
\* output that was written.
C9_Witness ==
    /\ out = 2
    /\ Took("build", 2, 2)
    /\ pc = "write"

(***************************************************************************)
(* C10.  The outputs are processed in order, up to the first that fails.   *)
(***************************************************************************)
\* The output at o has been taken up: a step of it is logged, or its file is
\* written or uploaded.
Begun(o) == (\E n \in DOMAIN log : log[n].out = o) \/ ~Untouched(o) \/ o \in uploaded

\* The output at o has been processed to its end, with success.
Completed(o) ==
    /\ Step("resolve", o, 0, TRUE) \in Steps
    /\ Step("write", o, 0, TRUE) \in Steps
    /\ Written(o)
    /\ upload => Step("upload", o, 0, TRUE) \in Steps /\ o \in uploaded
    /\ ~OutputFailed(o)

\* C10: the outputs are processed in the order of the configuration, and an
\* output is resolved, fetched, written or uploaded only when every output
\* before it has completed with success; once an output fails, in whatever
\* way, no later output is resolved, fetched, written or uploaded, and the
\* files written and uploaded for the earlier outputs stay.
C10_PrefixClosed ==
    /\ \A n \in DOMAIN log :
        /\ log[n].out <= out
        /\ \A m \in 1..(n - 1) : log[m].out <= log[n].out
    /\ \A o \in DOMAIN outputs :
        /\ Begun(o) => \A i \in 1..(o - 1) : Completed(i)
        /\ OutputFailed(o) => out = o /\ pc \in {"write", "exit1", "raised"}
        /\ OutputFailed(o) \/ (Aborted /\ out = o) =>
                \A j \in DOMAIN outputs : j > o => ~Begun(j)

\* The case of C10: the second output fails after the first was written and
\* uploaded.
C10_Witness ==
    /\ Aborted
    /\ out = 2
    /\ OutputFailed(2)
    /\ Completed(1)
    /\ upload

====
